---- MODULE Spec2Model ----
(***************************************************************************)
(* PITC Bill Checker: the REST facade (server.js), the lookup orchestrator *)
(* getPITCBill with its two outbound calls to the portal, the company      *)
(* registry, the reference number validator and the bill field extractor   *)
(* parseBillDetails (pitc-bill.js), the older getHESCOBill (hesco-bill.js) *)
(* and the direct calls of the lookups (index.js).                         *)
(*                                                                         *)
(* JavaScript strings are TLA+ strings; a character is a string of length  *)
(* one (SubSeq(s, i, i)).  A JavaScript value that need not be a string is *)
(* a tagged record: [t |-> "undefined"], [t |-> "string", v |-> s],        *)
(* [t |-> "array", v |-> <<s1, ..., sn>>].                                 *)
(***************************************************************************)
EXTENDS Integers, Sequences, FiniteSets, TLC

VARIABLES
    pc,         \* per request: "idle", "awaitGet", "awaitPost", "responded"
    req,        \* per request: the handler's inputs [method, refNo, company]
    act,        \* per request: the locals of its getPITCBill activation
    out,        \* per request: the outbound calls it issued, in order
    got,        \* per request: what each outbound call came to, in order
    resp,       \* per request: the responses sent, in order
    res,        \* per request: how its getPITCBill call ended, or NoValue
    parseCalls, \* per request: number of parseBillDetails calls
    sessions,   \* portal: number of token pages served
    vin,        \* validateReferenceNumber: the argument
    vout,       \* validateReferenceNumber: the returned object, or NoValue
    ppage,      \* parseBillDetails: the document, rows are those of $("table tr")
    pidx,       \* parseBillDetails: number of rows visited by .each
    pdata,      \* parseBillDetails: billData
    pprev,      \* parseBillDetails: billData before the last visited row
    ccode,      \* getCompanyByCode: the argument
    cout        \* getCompanyByCode: how the call ended, or NoValue

vars == <<pc, req, act, out, got, resp, res, parseCalls, sessions,
          vin, vout, ppage, pidx, pdata, pprev, ccode, cout>>

facadeVars == <<pc, req, act, out, got, resp, res, parseCalls, sessions>>
validateVars == <<vin, vout>>
parseVars == <<ppage, pidx, pdata, pprev>>
companyVars == <<ccode, cout>>

-----------------------------------------------------------------------------
(* Bounds of the model *)

MaxReqs == 1        \* check-bill requests received
MaxPad == 1         \* whitespace characters on each side of a validator input
MaxExtra == 1       \* digits beyond the longest accepted reference number
MaxRows == 2        \* table rows of a portal response
MaxLookups == 2     \* check-bill requests in flight at once

(* Program constants *)

MinRefDigits == 10
MaxRefDigits == 14

-----------------------------------------------------------------------------
(* JavaScript values and strings *)

NoValue == [t |-> "none"]
JsUndefined == [t |-> "undefined"]
JsStr(s) == [t |-> "string", v |-> s]
JsArr(a) == [t |-> "array", v |-> a]

CharAt(s, i) == SubSeq(s, i, i)

Digits == {"0", "1", "2", "3", "4", "5", "6", "7", "8", "9"}
WhiteSpace == {" ", "\t", "\n"}
UpperChars == "ABCDEFGHIJKLMNOPQRSTUVWXYZ"
LowerChars == "abcdefghijklmnopqrstuvwxyz"

RECURSIVE Join(_, _)
Join(a, sep) ==
    IF Len(a) = 0 THEN ""
    ELSE IF Len(a) = 1 THEN a[1]
    ELSE a[1] \o sep \o Join(Tail(a), sep)

\* Variant: no value counts as missing.
Falsy_Never(v) == FALSE

\* !v
Falsy(v) ==
    \/ v.t = "undefined"
    \/ v.t = "string" /\ v.v = ""

\* String(v)
ToJsString(v) ==
    CASE v.t = "string" -> v.v
      [] v.t = "array" -> Join(v.v, ",")
      [] OTHER -> "undefined"

RECURSIVE TrimStart(_)
TrimStart(s) ==
    IF Len(s) > 0 /\ CharAt(s, 1) \in WhiteSpace
    THEN TrimStart(SubSeq(s, 2, Len(s)))
    ELSE s

RECURSIVE TrimEnd(_)
TrimEnd(s) ==
    IF Len(s) > 0 /\ CharAt(s, Len(s)) \in WhiteSpace
    THEN TrimEnd(SubSeq(s, 1, Len(s) - 1))
    ELSE s

Trim(s) == TrimEnd(TrimStart(s))

Chars(s) == {CharAt(s, i) : i \in 1..Len(s)}

\* The character-to-character table that takes from[i] to to[i].
CharTable(from, to) ==
    [c \in Chars(from) |-> CharAt(to, CHOOSE i \in 1..Len(from) : CharAt(from, i) = c)]

LowerTable == CharTable(UpperChars, LowerChars)
UpperTable == CharTable(LowerChars, UpperChars)

MapChar(c, table) == IF c \in DOMAIN table THEN table[c] ELSE c

RECURSIVE MapString(_, _)
MapString(s, table) ==
    IF Len(s) = 0 THEN ""
    ELSE MapChar(CharAt(s, 1), table) \o MapString(SubSeq(s, 2, Len(s)), table)

ToLowerCase(s) == MapString(s, LowerTable)
ToUpperCase(s) == MapString(s, UpperTable)

Includes(s, sub) ==
    \E i \in 1..(Len(s) - Len(sub) + 1) : SubSeq(s, i, i + Len(sub) - 1) = sub

-----------------------------------------------------------------------------
(* validateReferenceNumber *)

\* Variant: the pattern /^\d+$/, without the length limits.
RefNoPatternTest_AnyLength(s) ==
    /\ Len(s) >= 1
    /\ \A i \in 1..Len(s) : CharAt(s, i) \in Digits

\* /^\d{10,14}$/.test(s)
RefNoPatternTest(s) ==
    /\ Len(s) >= MinRefDigits
    /\ Len(s) <= MaxRefDigits
    /\ \A i \in 1..Len(s) : CharAt(s, i) \in Digits

\* Variant: the pattern is tested on String(refNo), the trim is forgotten.
validateReferenceNumber_NoTrim(refNo) ==
    IF Falsy(refNo)
    THEN [valid |-> FALSE, error |-> "Reference number is required"]
    ELSE LET refNoStr == ToJsString(refNo)
         IN  IF ~RefNoPatternTest(refNoStr)
             THEN [valid |-> FALSE, error |-> "Reference number must be 10-14 digits"]
             ELSE [valid |-> TRUE, refNo |-> refNoStr]

validateReferenceNumber(refNo) ==
    IF Falsy(refNo)
    THEN [valid |-> FALSE, error |-> "Reference number is required"]
    ELSE LET refNoStr == Trim(ToJsString(refNo))
         IN  IF ~RefNoPatternTest(refNoStr)
             THEN [valid |-> FALSE, error |-> "Reference number must be 10-14 digits"]
             ELSE [valid |-> TRUE, refNo |-> refNoStr]

-----------------------------------------------------------------------------
(* Company registry *)

CompanyKeys ==
    <<"HESCO", "LESCO", "FESCO", "IESCO", "MEPCO", "GEPCO", "PESCO", "QESCO", "SEPCO">>

CompanyNames ==
    <<"Hyderabad Electric Supply Company", "Lahore Electric Supply Company",
      "Faisalabad Electric Supply Company", "Islamabad Electric Supply Company",
      "Multan Electric Power Company", "Gujranwala Electric Power Company",
      "Peshawar Electric Supply Company", "Quetta Electric Supply Company",
      "Sukkur Electric Power Company">>

CompanyCodes ==
    <<"hesco", "lesco", "fesco", "iesco", "mepco", "gepco", "pesco", "qesco", "sepco">>

KeyIndex(k) == CHOOSE i \in 1..Len(CompanyKeys) : CompanyKeys[i] = k

COMPANIES ==
    [k \in {CompanyKeys[i] : i \in 1..Len(CompanyKeys)} |->
        [name |-> CompanyNames[KeyIndex(k)],
         code |-> CompanyCodes[KeyIndex(k)],
         url  |-> "https://bill.pitc.com.pk/" \o CompanyCodes[KeyIndex(k)] \o "bill"]]

JsNull == [t |-> "null"]

\* A call either returns a value or throws an error object [code, message].
Returned(v) == [kind |-> "return", value |-> v]
Threw(code, message) == [kind |-> "throw", error |-> [code |-> code, message |-> message]]

\* Variant: the registry is indexed with the code as given.
getCompanyByCode_AsGiven(code) ==
    IF code.t = "undefined"
    THEN Threw("", "Cannot read properties of undefined (reading 'toUpperCase')")
    ELSE IF code.t # "string"
    THEN Threw("", "code.toUpperCase is not a function")
    ELSE IF code.v \in DOMAIN COMPANIES
    THEN Returned(COMPANIES[code.v])
    ELSE Returned(JsNull)

getCompanyByCode(code) ==
    IF code.t = "undefined"
    THEN Threw("", "Cannot read properties of undefined (reading 'toUpperCase')")
    ELSE IF code.t # "string"
    THEN Threw("", "code.toUpperCase is not a function")
    ELSE LET upperCode == ToUpperCase(code.v)
         IN  IF upperCode \in DOMAIN COMPANIES
             THEN Returned(COMPANIES[upperCode])
             ELSE Returned(JsNull)

getSupportedCompanies ==
    [i \in 1..Len(CompanyKeys) |->
        [code |-> COMPANIES[CompanyKeys[i]].code, name |-> COMPANIES[CompanyKeys[i]].name]]

\* Variant: the keys of COMPANIES are listed as they are.
InvalidCompanyError_Keys ==
    "Invalid company code. Supported: " \o Join(CompanyKeys, ", ")

\* Object.keys(COMPANIES).map((k) => k.toLowerCase()).join(", ")
InvalidCompanyError ==
    "Invalid company code. Supported: "
        \o Join([i \in 1..Len(CompanyKeys) |-> ToLowerCase(CompanyKeys[i])], ", ")

-----------------------------------------------------------------------------
(* Form body: new URLSearchParams({...}).toString() *)

FormUnreserved ==
    Chars("ABCDEFGHIJKLMNOPQRSTUVWXYZabcdefghijklmnopqrstuvwxyz0123456789*-._")

PercentChars == "+/=&,;:?#%\t\n"
PercentCodes ==
    <<"%2B", "%2F", "%3D", "%26", "%2C", "%3B", "%3A", "%3F", "%23", "%25", "%09", "%0A">>

PercentTable ==
    [c \in Chars(PercentChars) |->
        PercentCodes[CHOOSE i \in 1..Len(PercentChars) : CharAt(PercentChars, i) = c]]

\* application/x-www-form-urlencoded byte serializer, on the characters above
FormEncodeChar(c) ==
    IF c \in FormUnreserved THEN c
    ELSE IF c = " " THEN "+"
    ELSE IF c \in DOMAIN PercentTable THEN PercentTable[c]
    ELSE c

RECURSIVE FormEncode(_)
FormEncode(s) ==
    IF Len(s) = 0 THEN ""
    ELSE FormEncodeChar(CharAt(s, 1)) \o FormEncode(SubSeq(s, 2, Len(s)))

FormFieldNames ==
    <<"__VIEWSTATE", "__VIEWSTATEGENERATOR", "__EVENTVALIDATION",
      "__RequestVerificationToken", "rbSearchByList", "searchTextBox",
      "ruCodeTextBox", "btnSearch">>

\* Variant: the view state and the event validation token change places.
BuildFormData_Swapped(viewState, viewStateGenerator, eventValidation, requestVerificationToken, refNo) ==
    [n \in {FormFieldNames[i] : i \in 1..Len(FormFieldNames)} |->
        CASE n = "__VIEWSTATE" -> ToJsString(eventValidation)
          [] n = "__VIEWSTATEGENERATOR" -> ToJsString(viewStateGenerator)
          [] n = "__EVENTVALIDATION" -> ToJsString(viewState)
          [] n = "__RequestVerificationToken" -> ToJsString(requestVerificationToken)
          [] n = "rbSearchByList" -> "refno"
          [] n = "searchTextBox" -> ToJsString(refNo)
          [] n = "ruCodeTextBox" -> ""
          [] n = "btnSearch" -> "Search"]

\* The URLSearchParams constructor converts every value of the record to a string.
BuildFormData(viewState, viewStateGenerator, eventValidation, requestVerificationToken, refNo) ==
    [n \in {FormFieldNames[i] : i \in 1..Len(FormFieldNames)} |->
        CASE n = "__VIEWSTATE" -> ToJsString(viewState)
          [] n = "__VIEWSTATEGENERATOR" -> ToJsString(viewStateGenerator)
          [] n = "__EVENTVALIDATION" -> ToJsString(eventValidation)
          [] n = "__RequestVerificationToken" -> ToJsString(requestVerificationToken)
          [] n = "rbSearchByList" -> "refno"
          [] n = "searchTextBox" -> ToJsString(refNo)
          [] n = "ruCodeTextBox" -> ""
          [] n = "btnSearch" -> "Search"]

FormToString(formData) ==
    Join([i \in 1..Len(FormFieldNames) |->
            FormEncode(FormFieldNames[i]) \o "=" \o FormEncode(formData[FormFieldNames[i]])],
         "&")

\* Variant: the cookies kept from the portal's first session are sent.
CookieHeader_Cached(setCookie) == "ASP.NET_SessionId=s1; path=/; lang=en"

\* getResponse.headers["set-cookie"]?.join("; ") || ""
CookieHeader(setCookie) ==
    IF setCookie.t = "array" THEN Join(setCookie.v, "; ") ELSE ""

-----------------------------------------------------------------------------
(* parseBillDetails *)

\* A JavaScript object with optional string fields is a function on its keys.
EmptyObject == [k \in {} |-> ""]
\* Variant: a field that has a value keeps it.
SetField_KeepFirst(o, k, v) ==
    IF k \in DOMAIN o THEN o ELSE [x \in (DOMAIN o) \cup {k} |-> IF x = k THEN v ELSE o[x]]

SetField(o, k, v) == [x \in (DOMAIN o) \cup {k} |-> IF x = k THEN v ELSE o[x]]

NewBillData(refNo, companyCode) ==
    [referenceNumber |-> refNo,
     company         |-> companyCode,
     consumerDetails |-> EmptyObject,
     billDetails     |-> EmptyObject,
     charges         |-> EmptyObject,
     rawHtml         |-> JsNull]

SetConsumer(b, k, v) == [b EXCEPT !.consumerDetails = SetField(@, k, v)]
SetBill(b, k, v) == [b EXCEPT !.billDetails = SetField(@, k, v)]
SetCharge(b, k, v) == [b EXCEPT !.charges = SetField(@, k, v)]

\* The chain of label tests of the .each callback, for one label and value.
MapField(billData, label, value) ==
    IF Includes(label, "consumer") \/ Includes(label, "name")
    THEN SetConsumer(billData, "name", value)
    ELSE IF Includes(label, "address")
    THEN SetConsumer(billData, "address", value)
    ELSE IF Includes(label, "customer") \/ Includes(label, "id")
    THEN SetConsumer(billData, "customerId", value)
    ELSE IF Includes(label, "tariff")
    THEN SetBill(billData, "tariff", value)
    ELSE IF Includes(label, "due date")
    THEN SetBill(billData, "dueDate", value)
    ELSE IF Includes(label, "issue date") \/ Includes(label, "bill date")
    THEN SetBill(billData, "issueDate", value)
    ELSE IF Includes(label, "reading date")
    THEN SetBill(billData, "readingDate", value)
    ELSE IF Includes(label, "current reading")
    THEN SetBill(billData, "currentReading", value)
    ELSE IF Includes(label, "previous reading")
    THEN SetBill(billData, "previousReading", value)
    ELSE IF Includes(label, "units") \/ Includes(label, "consumption")
    THEN SetBill(billData, "unitsConsumed", value)
    ELSE IF Includes(label, "amount payable") \/ Includes(label, "total amount")
    THEN SetCharge(billData, "totalAmount", value)
    ELSE IF Includes(label, "after due date")
    THEN SetCharge(billData, "amountAfterDueDate", value)
    ELSE IF Includes(label, "electricity charges")
    THEN SetCharge(billData, "electricityCharges", value)
    ELSE IF Includes(label, "gst") \/ Includes(label, "tax")
    THEN SetCharge(billData, "gst", value)
    ELSE billData

\* Variant: the value cell is taken without trim().
EachRow_RawValue(billData, cells) ==
    IF Len(cells) >= 2
    THEN MapField(billData, ToLowerCase(Trim(cells[1])), cells[2])
    ELSE billData

\* The .each callback on one row; cells are the texts of the row's td elements.
EachRow(billData, cells) ==
    IF Len(cells) >= 2
    THEN MapField(billData, ToLowerCase(Trim(cells[1])), Trim(cells[2]))
    ELSE billData

RECURSIVE EachRows(_, _, _)
EachRows(billData, rows, n) ==
    IF n = 0 THEN billData
    ELSE EachRow(EachRows(billData, rows, n - 1), rows[n])

\* After the rows: the first element whose id or class contains "amount", and the
\* serialized document.
FinishBillData(billData, page) ==
    LET withAmount ==
            IF page.amount.t = "string"
            THEN SetCharge(billData, "displayAmount", Trim(page.amount.v))
            ELSE billData
    IN  [withAmount EXCEPT !.rawHtml = JsStr(page.html)]

parseBillDetails(page, refNo, companyCode) ==
    FinishBillData(EachRows(NewBillData(refNo, companyCode), page.rows, Len(page.rows)), page)

-----------------------------------------------------------------------------
(* getPITCBill, cut at its two awaits *)

Awaiting(call, company) == [kind |-> "await", call |-> call, company |-> company]

\* The catch block.
getPITCBill_catch(error) ==
    IF error.code = "ECONNABORTED" \/ error.code = "UND_ERR_CONNECT_TIMEOUT"
    THEN Returned([success |-> FALSE,
                   error |-> "Connection timeout - PITC server may be geo-restricted or down"])
    ELSE IF error.code = "ENOTFOUND" \/ error.code = "ECONNREFUSED"
    THEN Returned([success |-> FALSE, error |-> "Unable to connect to PITC server"])
    ELSE Returned([success |-> FALSE, error |-> error.message])

\* Variant: no try block, what is thrown leaves getPITCBill.
TryCatch_None(o) == o

\* try { ... } catch (error) { ... } around a segment of the body
TryCatch(o) == IF o.kind = "throw" THEN getPITCBill_catch(o.error) ELSE o

\* From the call to the first await: resolve the company, issue the token GET.
getPITCBill_begin(refNo, companyCode) ==
    TryCatch(
        LET company == getCompanyByCode(companyCode)
        IN  IF company.kind = "throw" THEN company
            ELSE IF company.value = JsNull
            THEN Returned([success |-> FALSE, error |-> InvalidCompanyError])
            ELSE Awaiting([method |-> "GET", url |-> company.value.url], company.value))

\* From the token page to the second await: extract the tokens, issue the form POST.
getPITCBill_afterGet(refNo, company, getResponse) ==
    TryCatch(
        LET viewState == getResponse.data.viewState
            viewStateGenerator == getResponse.data.viewStateGenerator
            eventValidation == getResponse.data.eventValidation
            requestVerificationToken == getResponse.data.requestVerificationToken
        IN  IF Falsy(viewState) \/ Falsy(viewStateGenerator) \/ Falsy(eventValidation)
            THEN Returned([success |-> FALSE,
                           error |-> "Failed to extract required tokens from PITC portal"])
            ELSE LET formData == BuildFormData(viewState, viewStateGenerator,
                                               eventValidation, requestVerificationToken,
                                               refNo)
                 IN  Awaiting([method   |-> "POST",
                               url      |-> company.url,
                               formData |-> formData,
                               body     |-> FormToString(formData),
                               referer  |-> company.url,
                               cookie   |-> CookieHeader(getResponse.setCookie)],
                              company))

\* Variant: the text of #ua is taken without trim().
ErrorDivText_Raw(data) == data.ua

\* $result("#ua").text().trim()
ErrorDivText(data) == Trim(data.ua)

\* From the form response to the return: error region, then the bill record.
getPITCBill_afterPost(refNo, company, postResponse) ==
    TryCatch(
        LET errorDiv == ErrorDivText(postResponse.data)
        IN  IF errorDiv # ""
            THEN [kind |-> "return", parsed |-> FALSE,
                  value |-> [success |-> FALSE,
                             error   |-> errorDiv,
                             refNo   |-> refNo,
                             company |-> company.code]]
            ELSE [kind |-> "return", parsed |-> TRUE,
                  value |-> [success     |-> TRUE,
                             refNo       |-> refNo,
                             company     |-> company.code,
                             companyName |-> company.name,
                             data        |-> parseBillDetails(postResponse.data, refNo,
                                                              company.code)]])

-----------------------------------------------------------------------------
(* The callers' inputs and the portal's behaviours *)

Reqs == 1..MaxReqs

\* refNo of req.query / req.body
RefNoInputs ==
    {JsUndefined, JsStr(""), JsStr("123"), JsStr("0611353046a"), JsStr(" 06113530462901\n")}

\* company of req.query / req.body; ?company[]=hesco gives an array
CompanyInputs ==
    {JsUndefined, JsStr("hesco"), JsStr("LESCO"), JsStr("invalid"), JsArr(<<"hesco">>)}

NumStr(n) == CharAt("0123456789", n + 1)

\* The token page of the portal's n-th session, all four hidden fields present.
FullTokenPage(n) ==
    [viewState                |-> JsStr("/wEP+" \o NumStr(n) \o "="),
     viewStateGenerator       |-> JsStr("B0E3" \o NumStr(n)),
     eventValidation          |-> JsStr("/wEd" \o NumStr(n) \o "=="),
     requestVerificationToken |-> JsStr("CfDJ8 " \o NumStr(n))]

TokenFields ==
    {"viewState", "viewStateGenerator", "eventValidation", "requestVerificationToken"}

\* .val() is undefined without the element or its value attribute.
TokenPages(n) ==
    {FullTokenPage(n)} \cup
    {[FullTokenPage(n) EXCEPT ![f] = v] : f \in TokenFields, v \in {JsUndefined, JsStr("")}}

SessionCookies(n) == JsArr(<<"ASP.NET_SessionId=s" \o NumStr(n) \o "; path=/", "lang=en">>)

\* What axios.get resolves with: a token page, with or without Set-Cookie headers.
TokenResponses(n) ==
    {[data |-> page, setCookie |-> SessionCookies(n)] : page \in TokenPages(n)}
    \cup {[data |-> FullTokenPage(n), setCookie |-> JsUndefined]}

\* Rejections of axios.get / axios.post
Faults ==
    {[code |-> "ECONNABORTED", message |-> "timeout of 30000ms exceeded"],
     [code |-> "UND_ERR_CONNECT_TIMEOUT", message |-> "Connect Timeout Error"],
     [code |-> "ENOTFOUND", message |-> "getaddrinfo ENOTFOUND bill.pitc.com.pk"],
     [code |-> "ECONNREFUSED", message |-> "connect ECONNREFUSED 127.0.0.1:443"],
     [code |-> "ERR_BAD_RESPONSE", message |-> "Request failed with status code 500"]}

\* Form responses: ua is the text of #ua, rows the td texts of every table row,
\* amount the text of the first [id*="amount"], [class*="amount"] element.
PostPages ==
    {[ua     |-> "\n  The given input does not belongs to HESCO \n",
      rows   |-> <<<<"Consumer Name", "Jane Doe">>>>,
      amount |-> JsUndefined,
      html   |-> "<html>error</html>"],
     [ua     |-> "",
      rows   |-> <<<<"Consumer Name", " Jane Doe ">>, <<"Total Amount Payable", "5000">>>>,
      amount |-> JsStr(" 5000 "),
      html   |-> "<html>bill</html>"],
     [ua     |-> " \t",
      rows   |-> <<<<"Amount After Due Date", "5200">>, <<"Meter No">>>>,
      amount |-> JsUndefined,
      html   |-> "<html>late</html>"],
     [ua     |-> "",
      rows   |-> << >>,
      amount |-> JsUndefined,
      html   |-> "<html></html>"]}

-----------------------------------------------------------------------------------------------------------------------------------------------------
(* The facade and the lookups *)

InitFacade ==
    /\ pc = [r \in Reqs |-> "idle"]
    /\ req = [r \in Reqs |-> NoValue]
    /\ act = [r \in Reqs |-> NoValue]
    /\ out = [r \in Reqs |-> << >>]
    /\ got = [r \in Reqs |-> << >>]
    /\ resp = [r \in Reqs |-> << >>]
    /\ res = [r \in Reqs |-> NoValue]
    /\ parseCalls = [r \in Reqs |-> 0]
    /\ sessions = 0

InitValidateIdle ==
    /\ vin = NoValue
    /\ vout = NoValue

InitParseIdle ==
    /\ ppage = NoValue
    /\ pidx = 0
    /\ pdata = NoValue
    /\ pprev = NoValue

InitCompanyIdle ==
    /\ ccode = NoValue
    /\ cout = NoValue

Init == InitFacade /\ InitValidateIdle /\ InitParseIdle /\ InitCompanyIdle

\* res.status(status).json(body)
Send(r, status, body) ==
    /\ resp' = [resp EXCEPT ![r] = Append(@, [status |-> status, body |-> body])]
    /\ pc' = [pc EXCEPT ![r] = "responded"]
    /\ act' = [act EXCEPT ![r] = NoValue]

\* Variant: res.json(result) whatever the result.
StatusOf_AlwaysOk(result) == 200

\* if (result.success) res.json(result) else res.status(404).json(result)
StatusOf(result) == IF result.success THEN 200 ELSE 404

\* The handler around `await getPITCBill(...)`: o is what the call has come to.
Settle(r, o, refNo) ==
    /\ parseCalls' = [parseCalls EXCEPT
                        ![r] = IF "parsed" \in DOMAIN o /\ o.parsed THEN @ + 1 ELSE @]
    /\ IF o.kind = "await"
       THEN /\ out' = [out EXCEPT ![r] = Append(@, o.call)]
            /\ act' = [act EXCEPT ![r] = [refNo |-> refNo, company |-> o.company]]
            /\ pc' = [pc EXCEPT ![r] = IF o.call.method = "GET" THEN "awaitGet" ELSE "awaitPost"]
            /\ UNCHANGED <<resp, res>>
       ELSE /\ UNCHANGED out
            /\ IF o.kind = "return"
               THEN /\ res' = [res EXCEPT ![r] = [kind |-> "return", value |-> o.value]]
                    /\ Send(r, StatusOf(o.value), o.value)
               ELSE /\ res' = [res EXCEPT ![r] = [kind |-> "throw", error |-> o.error]]
                    /\ Send(r, 500, [success |-> FALSE,
                                     error   |-> "Internal server error",
                                     message |-> o.error.message])

\* Variant: only the GET handler has the default.
DefaultCompany_GetOnly(method, companyIn) ==
    IF method = "GET" /\ companyIn = JsUndefined THEN JsStr("hesco") ELSE companyIn

\* Variant: the default is another company.
DefaultCompany_Lesco(method, companyIn) ==
    IF companyIn = JsUndefined THEN JsStr("lesco") ELSE companyIn

\* const { refNo, company = "hesco" } = req.query / req.body
DefaultCompany(method, companyIn) ==
    IF companyIn = JsUndefined THEN JsStr("hesco") ELSE companyIn

\* Variant: the refNo of the request is passed on as it came.
LookupRefNo_AsReceived(refNoIn, validation) == refNoIn

\* The first argument of getPITCBill(validation.refNo, company)
LookupRefNo(refNoIn, validation) == JsStr(validation.refNo)

\* The body shared by the two check-bill handlers, up to the first await.
CheckBill(r, method, refNoIn, companyIn) ==
    /\ pc[r] = "idle"
    /\ req' = [req EXCEPT ![r] = [method |-> method, refNo |-> refNoIn, company |-> companyIn]]
    /\ LET company == DefaultCompany(method, companyIn)
           validation == validateReferenceNumber(refNoIn)
       IN  IF ~validation.valid
           THEN /\ Send(r, 400, [success |-> FALSE, error |-> validation.error])
                /\ UNCHANGED <<out, res, parseCalls>>
           ELSE Settle(r, getPITCBill_begin(LookupRefNo(refNoIn, validation), company),
                       LookupRefNo(refNoIn, validation))
    /\ UNCHANGED <<got, sessions, validateVars, parseVars, companyVars>>

\* app.get("/api/check-bill")
GetCheckBill(r) ==
    \E refNo \in RefNoInputs, company \in CompanyInputs : CheckBill(r, "GET", refNo, company)

\* app.post("/api/check-bill")
PostCheckBill(r) ==
    \E refNo \in RefNoInputs, company \in CompanyInputs : CheckBill(r, "POST", refNo, company)

\* axios.get resolves with a token page of a new portal session.
TokenGetReturns(r) ==
    /\ pc[r] = "awaitGet"
    /\ sessions' = sessions + 1
    /\ \E getResponse \in TokenResponses(sessions + 1) :
          /\ got' = [got EXCEPT ![r] = Append(@, [kind |-> "page", response |-> getResponse])]
          /\ Settle(r, getPITCBill_afterGet(act[r].refNo, act[r].company, getResponse),
                    act[r].refNo)
    /\ UNCHANGED <<req, validateVars, parseVars, companyVars>>

\* axios.get rejects.
TokenGetFaults(r) ==
    /\ pc[r] = "awaitGet"
    /\ \E error \in Faults :
          /\ got' = [got EXCEPT ![r] = Append(@, [kind |-> "fault", error |-> error])]
          /\ Settle(r, getPITCBill_catch(error), act[r].refNo)
    /\ UNCHANGED <<req, sessions, validateVars, parseVars, companyVars>>

\* axios.post resolves with the portal's answer to the form.
FormPostReturns(r) ==
    /\ pc[r] = "awaitPost"
    /\ \E page \in PostPages :
          LET postResponse == [data |-> page]
          IN  /\ got' = [got EXCEPT ![r] = Append(@, [kind |-> "page", response |-> postResponse])]
              /\ Settle(r, getPITCBill_afterPost(act[r].refNo, act[r].company, postResponse),
                        act[r].refNo)
    /\ UNCHANGED <<req, sessions, validateVars, parseVars, companyVars>>

\* axios.post rejects.
FormPostFaults(r) ==
    /\ pc[r] = "awaitPost"
    /\ \E error \in Faults :
          /\ got' = [got EXCEPT ![r] = Append(@, [kind |-> "fault", error |-> error])]
          /\ Settle(r, getPITCBill_catch(error), act[r].refNo)
    /\ UNCHANGED <<req, sessions, validateVars, parseVars, companyVars>>

Next ==
    \E r \in Reqs :
        \/ GetCheckBill(r)
        \/ PostCheckBill(r)
        \/ TokenGetReturns(r)
        \/ TokenGetFaults(r)
        \/ FormPostReturns(r)
        \/ FormPostFaults(r)

Spec == Init /\ [][Next]_vars

-----------------------------------------------------------------------------
(* getHESCOBill (hesco-bill.js), cut at its two awaits *)

HescoBaseUrl == "https://bill.pitc.com.pk/hescobill"

\* The catch block of getHESCOBill.
getHESCOBill_catch(error) ==
    IF error.code = "ECONNABORTED" \/ error.code = "UND_ERR_CONNECT_TIMEOUT"
    THEN Returned([success |-> FALSE,
                   error |-> "Connection timeout - PITC server may be geo-restricted or down"])
    ELSE IF error.code = "ENOTFOUND" \/ error.code = "ECONNREFUSED"
    THEN Returned([success |-> FALSE, error |-> "Unable to connect to PITC server"])
    ELSE Returned([success |-> FALSE, error |-> error.message])

HescoTryCatch(o) == IF o.kind = "throw" THEN getHESCOBill_catch(o.error) ELSE o

\* billData of hesco-bill.js has no company field.
NewHescoBillData(refNo) ==
    [referenceNumber |-> refNo,
     consumerDetails |-> EmptyObject,
     billDetails     |-> EmptyObject,
     charges         |-> EmptyObject,
     rawHtml         |-> JsNull]

parseHescoBillDetails(page, refNo) ==
    FinishBillData(EachRows(NewHescoBillData(refNo), page.rows, Len(page.rows)), page)

\* From the call to the first await.
getHESCOBill_begin(refNo) ==
    HescoTryCatch(Awaiting([method |-> "GET", url |-> HescoBaseUrl], [url |-> HescoBaseUrl]))

\* From the token page to the second await.
getHESCOBill_afterGet(refNo, getResponse) ==
    HescoTryCatch(
        LET viewState == getResponse.data.viewState
            viewStateGenerator == getResponse.data.viewStateGenerator
            eventValidation == getResponse.data.eventValidation
            requestVerificationToken == getResponse.data.requestVerificationToken
        IN  IF Falsy(viewState) \/ Falsy(viewStateGenerator) \/ Falsy(eventValidation)
            THEN Returned([success |-> FALSE,
                           error |-> "Failed to extract required tokens from PITC portal"])
            ELSE LET formData == BuildFormData(viewState, viewStateGenerator,
                                               eventValidation, requestVerificationToken,
                                               refNo)
                 IN  Awaiting([method   |-> "POST",
                               url      |-> HescoBaseUrl,
                               formData |-> formData,
                               body     |-> FormToString(formData),
                               referer  |-> HescoBaseUrl,
                               cookie   |-> CookieHeader(getResponse.setCookie)],
                              [url |-> HescoBaseUrl]))

\* Variant: the failure on the error region carries the parsed page as data.
HescoErrorResult_WithData(errorDiv, refNo, page) ==
    [success |-> FALSE, error |-> errorDiv, refNo |-> refNo,
     data |-> parseHescoBillDetails(page, refNo)]

\* return { success: false, error: errorDiv, refNo: refNo }
HescoErrorResult(errorDiv, refNo, page) ==
    [success |-> FALSE, error |-> errorDiv, refNo |-> refNo]

\* From the form response to the return.
getHESCOBill_afterPost(refNo, postResponse) ==
    HescoTryCatch(
        LET errorDiv == ErrorDivText(postResponse.data)
        IN  IF errorDiv # ""
            THEN [kind |-> "return", parsed |-> FALSE,
                  value |-> HescoErrorResult(errorDiv, refNo, postResponse.data)]
            ELSE [kind |-> "return", parsed |-> TRUE,
                  value |-> [success |-> TRUE,
                             refNo   |-> refNo,
                             data    |-> parseHescoBillDetails(postResponse.data, refNo)]])

-----------------------------------------------------------------------------
(* getPITCBill and getHESCOBill called directly, as index.js and other users *)
(* of the two modules call them: no validation comes before the call        *)

\* refNo as a caller passes it: process.argv[2] or any value
LookupRefNos == {JsStr("06113530462901"), JsStr("12 34"), JsUndefined}

\* companyCode as a caller passes it
LookupCompanies ==
    {JsStr("hesco"), JsStr("Sepco"), JsStr("invalid"), JsStr(""), JsStr("hesco "),
     JsStr("wapda"), JsStr("pitc"), JsUndefined, JsArr(<<"hesco">>)}

\* The caller of the async function: o is what the call has come to.
Resume(r, o, fn, refNo) ==
    /\ parseCalls' = [parseCalls EXCEPT
                        ![r] = IF "parsed" \in DOMAIN o /\ o.parsed THEN @ + 1 ELSE @]
    /\ IF o.kind = "await"
       THEN /\ out' = [out EXCEPT ![r] = Append(@, o.call)]
            /\ act' = [act EXCEPT ![r] = [fn |-> fn, refNo |-> refNo, company |-> o.company]]
            /\ pc' = [pc EXCEPT ![r] = IF o.call.method = "GET" THEN "awaitGet" ELSE "awaitPost"]
            /\ UNCHANGED res
       ELSE /\ UNCHANGED out
            /\ act' = [act EXCEPT ![r] = NoValue]
            /\ pc' = [pc EXCEPT ![r] = "returned"]
            /\ res' = [res EXCEPT ![r] =
                          IF o.kind = "return" THEN [kind |-> "return", value |-> o.value]
                          ELSE [kind |-> "throw", error |-> o.error]]

\* getPITCBill(refNo, companyCode)
CallPITCBill(r) ==
    /\ pc[r] = "idle"
    /\ \E refNo \in LookupRefNos, companyCode \in LookupCompanies :
          /\ req' = [req EXCEPT ![r] = [method |-> "getPITCBill", refNo |-> refNo,
                                        company |-> companyCode]]
          /\ Resume(r, getPITCBill_begin(refNo, companyCode), "getPITCBill", refNo)
    /\ UNCHANGED <<got, resp, sessions, validateVars, parseVars, companyVars>>

\* getHESCOBill(refNo)
CallHESCOBill(r) ==
    /\ pc[r] = "idle"
    /\ \E refNo \in LookupRefNos :
          /\ req' = [req EXCEPT ![r] = [method |-> "getHESCOBill", refNo |-> refNo,
                                        company |-> JsUndefined]]
          /\ Resume(r, getHESCOBill_begin(refNo), "getHESCOBill", refNo)
    /\ UNCHANGED <<got, resp, sessions, validateVars, parseVars, companyVars>>

\* The continuation of the suspended function after its token GET.
AfterGet(a, getResponse) ==
    IF a.fn = "getPITCBill" THEN getPITCBill_afterGet(a.refNo, a.company, getResponse)
    ELSE getHESCOBill_afterGet(a.refNo, getResponse)

\* The continuation of the suspended function after its form POST.
AfterPost(a, postResponse) ==
    IF a.fn = "getPITCBill" THEN getPITCBill_afterPost(a.refNo, a.company, postResponse)
    ELSE getHESCOBill_afterPost(a.refNo, postResponse)

\* The catch block of the suspended function.
Catch(a, error) ==
    IF a.fn = "getPITCBill" THEN getPITCBill_catch(error) ELSE getHESCOBill_catch(error)

LookupGetReturns(r) ==
    /\ pc[r] = "awaitGet"
    /\ sessions' = sessions + 1
    /\ \E getResponse \in TokenResponses(sessions + 1) :
          /\ got' = [got EXCEPT ![r] = Append(@, [kind |-> "page", response |-> getResponse])]
          /\ Resume(r, AfterGet(act[r], getResponse), act[r].fn, act[r].refNo)
    /\ UNCHANGED <<req, resp, validateVars, parseVars, companyVars>>

LookupGetFaults(r) ==
    /\ pc[r] = "awaitGet"
    /\ \E error \in Faults :
          /\ got' = [got EXCEPT ![r] = Append(@, [kind |-> "fault", error |-> error])]
          /\ Resume(r, Catch(act[r], error), act[r].fn, act[r].refNo)
    /\ UNCHANGED <<req, resp, sessions, validateVars, parseVars, companyVars>>

LookupPostReturns(r) ==
    /\ pc[r] = "awaitPost"
    /\ \E page \in PostPages :
          LET postResponse == [data |-> page]
          IN  /\ got' = [got EXCEPT ![r] = Append(@, [kind |-> "page", response |-> postResponse])]
              /\ Resume(r, AfterPost(act[r], postResponse), act[r].fn, act[r].refNo)
    /\ UNCHANGED <<req, resp, sessions, validateVars, parseVars, companyVars>>

LookupPostFaults(r) ==
    /\ pc[r] = "awaitPost"
    /\ \E error \in Faults :
          /\ got' = [got EXCEPT ![r] = Append(@, [kind |-> "fault", error |-> error])]
          /\ Resume(r, Catch(act[r], error), act[r].fn, act[r].refNo)
    /\ UNCHANGED <<req, resp, sessions, validateVars, parseVars, companyVars>>

NextLookups ==
    \E r \in Reqs :
        \/ CallPITCBill(r)
        \/ CallHESCOBill(r)
        \/ LookupGetReturns(r)
        \/ LookupGetFaults(r)
        \/ LookupPostReturns(r)
        \/ LookupPostFaults(r)

SpecLookups == Init /\ [][NextLookups]_vars

-----------------------------------------------------------------------------
(* Several check-bill requests in flight at once: the handlers and the      *)
(* portal as above, each request's handler suspended at its awaits while    *)
(* the others run, over fewer inputs                                        *)

Lookups == 1..MaxLookups

ConcurrentRefNos == {JsStr("0611353046a"), JsStr(" 06113530462901\n")}
ConcurrentCompanies == {JsUndefined, JsStr("hesco"), JsStr("invalid")}
ConcurrentTokenResponses(n) ==
    {[data |-> FullTokenPage(n), setCookie |-> SessionCookies(n)],
     [data |-> [FullTokenPage(n) EXCEPT !.eventValidation = JsUndefined],
      setCookie |-> SessionCookies(n)]}
ConcurrentFaults == {e \in Faults : e.code = "ECONNABORTED"}
ConcurrentPostPages == {page \in PostPages : page.html \in {"<html>error</html>", "<html>bill</html>"}}

InitConcurrent ==
    /\ pc = [r \in Lookups |-> "idle"]
    /\ req = [r \in Lookups |-> NoValue]
    /\ act = [r \in Lookups |-> NoValue]
    /\ out = [r \in Lookups |-> << >>]
    /\ got = [r \in Lookups |-> << >>]
    /\ resp = [r \in Lookups |-> << >>]
    /\ res = [r \in Lookups |-> NoValue]
    /\ parseCalls = [r \in Lookups |-> 0]
    /\ sessions = 0
    /\ InitValidateIdle
    /\ InitParseIdle
    /\ InitCompanyIdle

\* What the last outbound call of r came to in the step
Arrived(r) == got'[r][Len(got'[r])]

ConcurrentGetCheckBill(r) ==
    /\ GetCheckBill(r)
    /\ req'[r].refNo \in ConcurrentRefNos
    /\ req'[r].company \in ConcurrentCompanies

ConcurrentPostCheckBill(r) ==
    /\ PostCheckBill(r)
    /\ req'[r].refNo \in ConcurrentRefNos
    /\ req'[r].company \in ConcurrentCompanies

ConcurrentTokenGetReturns(r) ==
    /\ TokenGetReturns(r)
    /\ Arrived(r).response \in ConcurrentTokenResponses(sessions')

ConcurrentTokenGetFaults(r) ==
    /\ TokenGetFaults(r)
    /\ Arrived(r).error \in ConcurrentFaults

ConcurrentFormPostReturns(r) ==
    /\ FormPostReturns(r)
    /\ Arrived(r).response.data \in ConcurrentPostPages

ConcurrentFormPostFaults(r) ==
    /\ FormPostFaults(r)
    /\ Arrived(r).error \in ConcurrentFaults

NextConcurrent ==
    \E r \in Lookups :
        \/ ConcurrentGetCheckBill(r)
        \/ ConcurrentPostCheckBill(r)
        \/ ConcurrentTokenGetReturns(r)
        \/ ConcurrentTokenGetFaults(r)
        \/ ConcurrentFormPostReturns(r)
        \/ ConcurrentFormPostFaults(r)

SpecConcurrent == InitConcurrent /\ [][NextConcurrent]_vars

-----------------------------------------------------------------------------
(* getPITCBill alone, followed from its call to its return, over fewer inputs *)

CourseRefNos == {JsStr("06113530462901"), JsUndefined}
CourseCompanies == {JsStr("hesco"), JsStr("Sepco"), JsStr("invalid"), JsUndefined}
CourseFaults == {e \in Faults : e.code \in {"ECONNABORTED", "ENOTFOUND", "ERR_BAD_RESPONSE"}}

CourseCall(r) ==
    /\ CallPITCBill(r)
    /\ req'[r].refNo \in CourseRefNos
    /\ req'[r].company \in CourseCompanies

CourseGetFaults(r) ==
    /\ LookupGetFaults(r)
    /\ Arrived(r).error \in CourseFaults

CourseGetReturns(r) ==
    /\ LookupGetReturns(r)
    /\ Arrived(r).response.setCookie # JsUndefined

CoursePostFaults(r) ==
    /\ LookupPostFaults(r)
    /\ Arrived(r).error \in CourseFaults

CoursePostReturns(r) ==
    /\ LookupPostReturns(r)
    /\ Arrived(r).response.data \in ConcurrentPostPages

NextCourse ==
    \E r \in Reqs :
        \/ CourseCall(r)
        \/ CourseGetFaults(r)
        \/ CourseGetReturns(r)
        \/ CoursePostFaults(r)
        \/ CoursePostReturns(r)

\* Every axios call is made with timeout: 30000, so each resolves or rejects:
\* a lookup suspended at an await is resumed.
FairCourse ==
    \A r \in Reqs :
        /\ WF_vars(CourseGetFaults(r) \/ CourseGetReturns(r))
        /\ WF_vars(CoursePostFaults(r) \/ CoursePostReturns(r))

SpecCourse == Init /\ [][NextCourse]_vars /\ FairCourse

-----------------------------------------------------------------------------
(* validateReferenceNumber on its own *)

RECURSIVE StringsOver(_, _)
StringsOver(chars, n) ==
    IF n = 0 THEN {""}
    ELSE LET shorter == StringsOver(chars, n - 1)
         IN  shorter \cup {c \o s : c \in chars, s \in {x \in shorter : Len(x) = n - 1}}

DigitRun(n) == SubSeq("0611353046290175", 1, n)

\* The digit run of length n with position p replaced by character c.
Spoiled(n, p, c) == SubSeq(DigitRun(n), 1, p - 1) \o c \o SubSeq(DigitRun(n), p + 1, n)

\* Digit runs, and digit runs with one position replaced by another character.
ValidateCores ==
    {DigitRun(n) : n \in 0..(MaxRefDigits + MaxExtra)} \cup
    UNION {{Spoiled(n, p, c) : p \in {1, 2, MinRefDigits, n} \cap 1..n, c \in {"x", " ", "-"}} :
            n \in 1..(MaxRefDigits + MaxExtra)}

ValidateInputs ==
    {JsStr(l \o core \o t) :
        l \in StringsOver({" ", "\n"}, MaxPad), t \in StringsOver({" ", "\t"}, MaxPad),
        core \in ValidateCores}
    \cup {JsUndefined, JsArr(<< >>), JsArr(<<"0611353046">>), JsArr(<<"0611353046", "29">>)}

InitValidate ==
    /\ InitFacade
    /\ InitParseIdle
    /\ InitCompanyIdle
    /\ vin \in ValidateInputs
    /\ vout = NoValue

Validate ==
    /\ vout = NoValue
    /\ vout' = validateReferenceNumber(vin)
    /\ UNCHANGED <<vin, facadeVars, parseVars, companyVars>>

NextValidate == Validate

SpecValidate == InitValidate /\ [][NextValidate]_vars

-----------------------------------------------------------------------------
(* parseBillDetails on its own, one step per row visited by .each *)

\* Rows as the texts of their td elements.
RowUniverse ==
    {<<"Consumer Name", "Jane Doe">>,
     <<" NAME &\n Address", " John ">>,
     <<"Address", "12 Main St">>,
     <<"Customer ID", "77">>,
     <<"Paid", "yes">>,
     <<"Tariff", "A-1a">>,
     <<"Due Date", "15 NOV 25">>,
     <<"Issue Date", "01 NOV 25">>,
     <<"Bill Date", "02 NOV 25">>,
     <<"Reading Date", "28 OCT 25">>,
     <<"Current Reading", "1200">>,
     <<"Previous Reading", "1000">>,
     <<"Units Consumed", "200">>,
     <<"CONSUMPTION", "201">>,
     <<"Total Amount Payable", "5000">>,
     <<"Total Amount", "5001">>,
     <<"Amount After Due Date", "5200">>,
     <<"Electricity Charges", "\t4500">>,
     <<"GST", "500", "17%">>,
     <<"Income Tax", "10">>,
     <<"Meter No", "M1">>,
     <<"", "">>,
     <<"Consumer Name">>,
     << >>}

RECURSIVE RowSeqs(_)
RowSeqs(n) ==
    IF n = 0 THEN {<< >>}
    ELSE LET shorter == RowSeqs(n - 1)
         IN  shorter \cup
             {Append(rows, row) : rows \in {x \in shorter : Len(x) = n - 1}, row \in RowUniverse}

InitParse ==
    /\ InitFacade
    /\ InitValidateIdle
    /\ InitCompanyIdle
    /\ ppage \in {[rows |-> rows, amount |-> amount, html |-> "<html>bill</html>"] :
                    rows \in RowSeqs(MaxRows), amount \in {JsUndefined, JsStr(" 5000 ")}}
    /\ pidx = 0
    /\ pdata = NewBillData(JsStr("06113530462901"), "lesco")
    /\ pprev = pdata

\* One call of the .each callback.
ParseEachRow ==
    /\ pidx < Len(ppage.rows)
    /\ pidx' = pidx + 1
    /\ pprev' = pdata
    /\ pdata' = EachRow(pdata, ppage.rows[pidx + 1])
    /\ UNCHANGED <<ppage, facadeVars, validateVars, companyVars>>

\* The statements after the loop.
ParseFinish ==
    /\ pidx = Len(ppage.rows)
    /\ pdata.rawHtml = JsNull
    /\ pdata' = FinishBillData(pdata, ppage)
    /\ UNCHANGED <<ppage, pidx, pprev, facadeVars, validateVars, companyVars>>

NextParse == ParseEachRow \/ ParseFinish

SpecParse == InitParse /\ [][NextParse]_vars

-----------------------------------------------------------------------------
(* getCompanyByCode on its own *)

\* Every spelling of s in upper-case and lower-case letters.
RECURSIVE CaseVariants(_)
CaseVariants(s) ==
    IF Len(s) = 0 THEN {""}
    ELSE {c \o rest : c \in {MapChar(CharAt(s, 1), LowerTable), MapChar(CharAt(s, 1), UpperTable)},
                      rest \in CaseVariants(SubSeq(s, 2, Len(s)))}

\* Spellings of the registered codes, strings that are none, and values that
\* are no strings.
CodeInputs ==
    {JsStr(s) : s \in UNION {CaseVariants(CompanyCodes[i]) : i \in 1..Len(CompanyCodes)}}
    \cup {JsStr(s) : s \in {"", "invalid", "hesc", "Hescoo", " hesco", "LESCO\n", "wapda"}}
    \cup {JsUndefined, JsArr(<<"hesco">>)}

InitCompany ==
    /\ InitFacade
    /\ InitValidateIdle
    /\ InitParseIdle
    /\ ccode \in CodeInputs
    /\ cout = NoValue

Resolve ==
    /\ cout = NoValue
    /\ cout' = getCompanyByCode(ccode)
    /\ UNCHANGED <<ccode, facadeVars, validateVars, parseVars>>

NextCompany == Resolve

SpecCompany == InitCompany /\ [][NextCompany]_vars

-----------------------------------------------------------------------------
(* Vocabulary of the properties *)

\* s without its leading and trailing whitespace
Stripped(s) ==
    LET idx == {i \in 1..Len(s) : CharAt(s, i) \notin WhiteSpace}
    IN  IF idx = {} THEN ""
        ELSE SubSeq(s, CHOOSE i \in idx : \A j \in idx : i <= j,
                       CHOOSE i \in idx : \A j \in idx : j <= i)

\* s is a string of 10 to 14 digits
WellFormedRefNo(s) ==
    /\ Len(s) \in 10..14
    /\ \A i \in 1..Len(s) : CharAt(s, i) \in Digits

\* A refNo of a request that validation lets through
PassesValidation(v) == v.t = "string" /\ WellFormedRefNo(Stripped(v.v))

\* A company code that is no registered code, case-insensitively
UnknownCompany(c) ==
    /\ c.t = "string"
    /\ \A i \in 1..Len(CompanyCodes) : ToLowerCase(c.v) # CompanyCodes[i]

\* The company code a request's lookup is for
RequestedCode(r) ==
    IF req[r].company = JsUndefined THEN "hesco" ELSE ToLowerCase(req[r].company.v)

Responded(r) == pc[r] = "responded"

RequiredTokens == {"viewState", "viewStateGenerator", "eventValidation"}

FormName(f) ==
    CASE f = "viewState" -> "__VIEWSTATE"
      [] f = "viewStateGenerator" -> "__VIEWSTATEGENERATOR"
      [] f = "eventValidation" -> "__EVENTVALIDATION"
      [] f = "requestVerificationToken" -> "__RequestVerificationToken"

\* The lookup of r has received a token page
HasTokenPage(r) == Len(got[r]) >= 1 /\ got[r][1].kind = "page"
TokenPageOf(r) == got[r][1].response.data

\* The lookup of r has received the portal's answer to its form
HasFormPage(r) == Len(got[r]) = 2 /\ got[r][2].kind = "page"
FormPageOf(r) == got[r][2].response.data

MissingRequired(page) ==
    \E f \in RequiredTokens : page[f] = JsUndefined \/ page[f] = JsStr("")

FaultMessage(e) ==
    IF e.code \in {"ECONNABORTED", "UND_ERR_CONNECT_TIMEOUT"}
    THEN "Connection timeout - PITC server may be geo-restricted or down"
    ELSE IF e.code \in {"ENOTFOUND", "ECONNREFUSED"}
    THEN "Unable to connect to PITC server"
    ELSE e.message

-----------------------------------------------------------------------------
(* Properties of the facade and the lookups, under Spec *)

\* C1: a check-bill request whose refNo passes validation and whose company code
\* is not registered is answered with status 400 and an error listing the
\* supported company codes.
C1_UnknownCompany400 ==
    \A r \in Reqs :
        (Responded(r) /\ PassesValidation(req[r].refNo) /\ UnknownCompany(req[r].company))
        => /\ resp[r][1].status = 400
           /\ \A i \in 1..Len(CompanyCodes) : Includes(resp[r][1].body.error, CompanyCodes[i])

\* C2: a request gets at most one response, exactly one once it is handled, with
\* status 400 when validation fails, 200 when getPITCBill returns a success, 404
\* when it returns a failure carrying the portal's error text, 500 only when the
\* call raised; a success body goes with 200 only and 200 with a success body only.
C2_StatusByOutcome ==
    \A r \in Reqs :
        /\ Len(resp[r]) <= 1
        /\ Responded(r) <=> Len(resp[r]) = 1
        /\ Responded(r) =>
            LET status == resp[r][1].status
                body == resp[r][1].body
            IN  /\ ~PassesValidation(req[r].refNo) => (status = 400 /\ res[r] = NoValue)
                /\ PassesValidation(req[r].refNo) => res[r] # NoValue
                /\ (res[r] # NoValue /\ res[r].kind = "return")
                   => /\ body = res[r].value
                      /\ res[r].value.success => status = 200
                      /\ (~res[r].value.success /\ HasFormPage(r)) => status = 404
                /\ status = 500 => (res[r] # NoValue /\ res[r].kind = "throw")
                /\ status \in {200, 400, 404, 500}
                /\ body.success <=> status = 200

C2_Witness ==
    \E r \in Reqs :
        /\ Responded(r)
        /\ HasFormPage(r)
        /\ resp[r] = <<[status |-> 404, body |-> res[r].value]>>
        /\ resp[r][1].body.error = "The given input does not belongs to HESCO"

\* C3: a request whose refNo fails validation is answered 400 with the validation
\* error, whatever its company, and issues no outbound call.
C3_InvalidRefNoRejected ==
    \A r \in Reqs :
        (req[r] # NoValue /\ ~PassesValidation(req[r].refNo))
        => /\ Responded(r)
           /\ resp[r] = <<[status |-> 400,
                           body   |-> [success |-> FALSE,
                                       error   |-> IF req[r].refNo \in {JsUndefined, JsStr("")}
                                                   THEN "Reference number is required"
                                                   ELSE "Reference number must be 10-14 digits"]]>>
           /\ out[r] = << >>
           /\ got[r] = << >>

C3_Witness ==
    \E r \in Reqs :
        /\ Responded(r)
        /\ req[r].refNo = JsStr("123")
        /\ req[r].company = JsStr("LESCO")
        /\ resp[r][1].status = 400
        /\ resp[r][1].body.error = "Reference number must be 10-14 digits"

\* C5: getPITCBill never raises; a fault at the token GET or at the form POST
\* gives a failure whose error is the timeout message, the connectivity message
\* or the fault's own message, by the fault's code; a company code that is no
\* string gives a failure too.
C5_NeverRaises ==
    \A r \in Reqs :
        /\ res[r] # NoValue => res[r].kind = "return"
        /\ (Len(got[r]) >= 1 /\ got[r][Len(got[r])].kind = "fault")
           => res[r] = [kind  |-> "return",
                        value |-> [success |-> FALSE,
                                   error   |-> FaultMessage(got[r][Len(got[r])].error)]]
        /\ (Responded(r) /\ PassesValidation(req[r].refNo) /\ req[r].company.t = "array")
           => (res[r] # NoValue /\ res[r].kind = "return" /\ ~res[r].value.success)

C5_Witness ==
    \E r \in Reqs :
        /\ Len(got[r]) = 2
        /\ got[r][2].kind = "fault"
        /\ got[r][2].error.code = "UND_ERR_CONNECT_TIMEOUT"
        /\ res[r].kind = "return"
        /\ res[r].value.error = "Connection timeout - PITC server may be geo-restricted or down"

\* C6: after a token page with the three required tokens, the form POST carries
\* every token of the page unmodified, in its form fields and, form-encoded, in the
\* body it sends; after a token page that lacks one of the three, the lookup
\* returns the token failure and issues no POST.
C6_TokensForwarded ==
    \A r \in Reqs :
        HasTokenPage(r) =>
            IF MissingRequired(TokenPageOf(r))
            THEN /\ Len(out[r]) = 1
                 /\ out[r][1].method = "GET"
                 /\ res[r] = [kind  |-> "return",
                              value |-> [success |-> FALSE,
                                         error   |-> "Failed to extract required tokens from PITC portal"]]
            ELSE /\ Len(out[r]) = 2
                 /\ out[r][2].method = "POST"
                 /\ \A f \in TokenFields :
                        TokenPageOf(r)[f].t = "string"
                        => /\ out[r][2].formData[FormName(f)] = TokenPageOf(r)[f].v
                           /\ pc[r] = "awaitPost"
                              => Includes("&" \o out[r][2].body \o "&",
                                          "&" \o FormName(f) \o "="
                                              \o FormEncode(TokenPageOf(r)[f].v) \o "&")

C6_Witness ==
    \E r \in Reqs :
        /\ HasTokenPage(r)
        /\ TokenPageOf(r) = FullTokenPage(1)
        /\ Len(out[r]) = 2
        /\ out[r][2].formData["__EVENTVALIDATION"] = "/wEd1=="

\* C7: after a token page with the three required tokens and no request
\* verification token, the form POST is issued with an empty
\* __RequestVerificationToken.
C7_EmptyVerificationToken ==
    \A r \in Reqs :
        (/\ HasTokenPage(r)
         /\ ~MissingRequired(TokenPageOf(r))
         /\ TokenPageOf(r).requestVerificationToken = JsUndefined)
        => /\ Len(out[r]) = 2
           /\ out[r][2].method = "POST"
           /\ out[r][2].formData["__RequestVerificationToken"] = ""
           /\ Includes("&" \o out[r][2].body \o "&", "&__RequestVerificationToken=&")

\* C8: a form response whose error region has non-empty trimmed text X gives a
\* failure with error X, the reference number and the company code, without a
\* call of parseBillDetails; a success is returned only for an empty error region.
C8_ErrorRegion ==
    \A r \in Reqs :
        /\ (HasFormPage(r) /\ Stripped(FormPageOf(r).ua) # "")
           => /\ res[r] = [kind  |-> "return",
                           value |-> [success |-> FALSE,
                                      error   |-> Stripped(FormPageOf(r).ua),
                                      refNo   |-> JsStr(Stripped(req[r].refNo.v)),
                                      company |-> RequestedCode(r)]]
              /\ parseCalls[r] = 0
        /\ (res[r] # NoValue /\ res[r].kind = "return" /\ res[r].value.success)
           => (HasFormPage(r) /\ Stripped(FormPageOf(r).ua) = "" /\ parseCalls[r] = 1)

C8_Witness ==
    \E r \in Reqs :
        /\ HasFormPage(r)
        /\ FormPageOf(r).ua = "\n  The given input does not belongs to HESCO \n"
        /\ res[r].value.error = "The given input does not belongs to HESCO"
        /\ res[r].value.company = "lesco"

-----------------------------------------------------------------------------
(* Properties of validateReferenceNumber, under SpecValidate *)

RequiredResult == [valid |-> FALSE, error |-> "Reference number is required"]
FormatResult == [valid |-> FALSE, error |-> "Reference number must be 10-14 digits"]

\* C4: every string that is not 10 to 14 digits (the empty string and digits
\* surrounded by whitespace among them) fails validation with the message
\* "Reference number must be 10-14 digits", and every string of 10 to 14 digits
\* passes and is returned unchanged.
C4_FixedMessage ==
    (vout # NoValue /\ vin.t = "string")
    => IF WellFormedRefNo(vin.v)
       THEN vout = [valid |-> TRUE, refNo |-> vin.v]
       ELSE vout = FormatResult

\* C4 as the code has it: the empty string fails with "Reference number is
\* required"; any other string fails with "Reference number must be 10-14
\* digits" unless it is 10 to 14 digits once its surrounding whitespace is
\* removed, and then it passes and the digits are returned without the whitespace.
C4_TrimmedThenMatched ==
    (vout # NoValue /\ vin.t = "string")
    => IF vin.v = "" THEN vout = RequiredResult
       ELSE IF WellFormedRefNo(Stripped(vin.v))
       THEN vout = [valid |-> TRUE, refNo |-> Stripped(vin.v)]
       ELSE vout = FormatResult

C4_Witness ==
    /\ vin = JsStr(" 0611353046\t")
    /\ vout = [valid |-> TRUE, refNo |-> "0611353046"]

-----------------------------------------------------------------------------
(* Properties of parseBillDetails, under SpecParse *)

\* The label rules in their documented order.
Rules ==
    <<[subs |-> {"consumer", "name"},               group |-> "consumerDetails", field |-> "name"],
      [subs |-> {"address"},                        group |-> "consumerDetails", field |-> "address"],
      [subs |-> {"customer", "id"},                 group |-> "consumerDetails", field |-> "customerId"],
      [subs |-> {"tariff"},                         group |-> "billDetails",     field |-> "tariff"],
      [subs |-> {"due date"},                       group |-> "billDetails",     field |-> "dueDate"],
      [subs |-> {"issue date", "bill date"},        group |-> "billDetails",     field |-> "issueDate"],
      [subs |-> {"reading date"},                   group |-> "billDetails",     field |-> "readingDate"],
      [subs |-> {"current reading"},                group |-> "billDetails",     field |-> "currentReading"],
      [subs |-> {"previous reading"},               group |-> "billDetails",     field |-> "previousReading"],
      [subs |-> {"units", "consumption"},           group |-> "billDetails",     field |-> "unitsConsumed"],
      [subs |-> {"amount payable", "total amount"}, group |-> "charges",         field |-> "totalAmount"],
      [subs |-> {"after due date"},                 group |-> "charges",         field |-> "amountAfterDueDate"],
      [subs |-> {"electricity charges"},            group |-> "charges",         field |-> "electricityCharges"],
      [subs |-> {"gst", "tax"},                     group |-> "charges",         field |-> "gst"]>>

Groups == {"consumerDetails", "billDetails", "charges"}

\* The first rule from i on with a substring that occurs in label, 0 if none
RECURSIVE FirstMatching(_, _)
FirstMatching(label, i) ==
    IF i > Len(Rules) THEN 0
    ELSE IF \E sub \in Rules[i].subs : Includes(label, sub) THEN i
    ELSE FirstMatching(label, i + 1)

\* The rule that applies to a row of at least two cells, 0 if none
RuleOf(cells) == FirstMatching(ToLowerCase(Stripped(cells[1])), 1)

\* after differs from before in the one field (group, field), which holds value
OnlyFieldSet(before, after, group, field, value) ==
    /\ after.referenceNumber = before.referenceNumber
    /\ after.company = before.company
    /\ after.rawHtml = before.rawHtml
    /\ \A g \in Groups :
        /\ DOMAIN after[g] = DOMAIN before[g] \cup (IF g = group THEN {field} ELSE {})
        /\ \A k \in DOMAIN after[g] :
              after[g][k] = IF g = group /\ k = field THEN value ELSE before[g][k]

\* The .each callback has just visited a row
RowVisited == pidx >= 1 /\ pdata # NoValue /\ pdata.rawHtml = JsNull
LastRow == ppage.rows[pidx]

\* C9: a row with at least two cells gives cell 1's trimmed text to the field of
\* the first rule, in the documented order, whose substring occurs in cell 0's
\* trimmed lower-cased text, and to no other field; a row that matches no rule
\* or has fewer than two cells leaves the record as it was.
C9_FirstRuleWins ==
    RowVisited =>
        LET rule == IF Len(LastRow) >= 2 THEN RuleOf(LastRow) ELSE 0
        IN  IF rule # 0
            THEN OnlyFieldSet(pprev, pdata, Rules[rule].group, Rules[rule].field,
                              Stripped(LastRow[2]))
            ELSE pdata = pprev

C9_Witness ==
    /\ RowVisited
    /\ pidx = 2
    /\ ppage.rows = <<<<"Total Amount Payable", "5000">>, <<" NAME &\n Address", " John ">>>>
    /\ pdata.charges.totalAmount = "5000"
    /\ pdata.consumerDetails.name = "John"
    /\ DOMAIN pdata.consumerDetails = {"name"}

\* C10: a row whose label contains "after due date" has its value recorded in
\* charges.amountAfterDueDate.
C10_AfterDueDate ==
    (/\ RowVisited
     /\ Len(LastRow) >= 2
     /\ Includes(ToLowerCase(Stripped(LastRow[1])), "after due date"))
    => /\ "amountAfterDueDate" \in DOMAIN pdata.charges
       /\ pdata.charges["amountAfterDueDate"] = Stripped(LastRow[2])

-----------------------------------------------------------------------------
(* Properties of getCompanyByCode, under SpecCompany *)

\* s and t are the same string up to the case of their letters
SameLetters(s, t) ==
    /\ Len(s) = Len(t)
    /\ \A i \in 1..Len(s) :
          \/ CharAt(s, i) = CharAt(t, i)
          \/ \E j \in 1..Len(LowerChars) :
                {CharAt(s, i), CharAt(t, i)} = {CharAt(LowerChars, j), CharAt(UpperChars, j)}

\* The registered codes, as getSupportedCompanies lists them
RegisteredCodes == {getSupportedCompanies[i].code : i \in 1..Len(getSupportedCompanies)}

\* C11: getCompanyByCode applied to any upper-case, lower-case or mixed-case
\* spelling of a registered code returns the one descriptor of that code, with
\* its registered name and endpoint, whose code field is the registered code in
\* lower case; so all spellings of one code get the same descriptor.
C11_CaseInsensitive ==
    \A i \in 1..Len(CompanyCodes) :
        (cout # NoValue /\ ccode.t = "string" /\ SameLetters(ccode.v, CompanyCodes[i]))
        => /\ cout = [kind  |-> "return",
                      value |-> [name |-> CompanyNames[i],
                                 code |-> CompanyCodes[i],
                                 url  |-> "https://bill.pitc.com.pk/" \o CompanyCodes[i] \o "bill"]]
           /\ cout.value.code \in RegisteredCodes
           /\ \A k \in 1..Len(cout.value.code) : CharAt(cout.value.code, k) \notin Chars(UpperChars)

C11_Witness ==
    /\ ccode = JsStr("mEpCo")
    /\ cout # NoValue
    /\ cout.value.code = "mepco"
    /\ cout.value.name = "Multan Electric Power Company"

-----------------------------------------------------------------------------
(* Properties of the lookups called directly, under SpecLookups *)

Returned_(r) == pc[r] = "returned"

\* A company code string that is no spelling of a registered code
UnregisteredCode(c) ==
    c.t = "string" /\ \A k \in RegisteredCodes : ~SameLetters(c.v, k)

\* The codes of getSupportedCompanies, separated by ", "
SupportedListing == Join([i \in 1..Len(getSupportedCompanies) |-> getSupportedCompanies[i].code], ", ")

\* C12: getPITCBill called with a company code string that is no spelling of a
\* registered code issues no outbound request and returns, at once, a failure
\* whose error lists the codes of getSupportedCompanies, every one of them and
\* nothing else.
C12_UnknownCodeFails ==
    \A r \in Reqs :
        (req[r] # NoValue /\ req[r].method = "getPITCBill" /\ UnregisteredCode(req[r].company))
        => /\ Returned_(r)
           /\ out[r] = << >>
           /\ got[r] = << >>
           /\ res[r] = [kind  |-> "return",
                        value |-> [success |-> FALSE,
                                   error   |-> "Invalid company code. Supported: "
                                                   \o SupportedListing]]
           /\ \A k \in RegisteredCodes : Includes(res[r].value.error, k)

C12_Witness ==
    \E r \in Reqs :
        /\ Returned_(r)
        /\ req[r].method = "getPITCBill"
        /\ req[r].company = JsStr("hesco ")
        /\ out[r] = << >>
        /\ Includes(res[r].value.error, "qesco, sepco")

-----------------------------------------------------------------------------
(* Properties of requests in flight at once, under SpecConcurrent *)

InFlight == DOMAIN pc

\* The form POSTs a lookup has issued, as positions in out
PostsOf(r) == {i \in 1..Len(out[r]) : out[r][i].method = "POST"}

\* The Cookie header made of the Set-Cookie headers of a lookup's token GET
OwnCookie(r) ==
    LET setCookie == got[r][1].response.setCookie
    IN  IF setCookie.t = "array" THEN Join(setCookie.v, "; ") ELSE ""

\* C13: with several lookups in flight in any interleaving, the same reference
\* number among them, a lookup issues at most one form POST; that POST carries
\* the four tokens of the token page this lookup's own GET received and the
\* cookies that GET set; it carries no token and no cookie that another lookup's
\* GET received; and no token page's view state is sent by more than one POST.
C13_OwnSessionOnly ==
    \A r \in InFlight :
        /\ Cardinality(PostsOf(r)) <= 1
        /\ \A i \in PostsOf(r) :
              /\ HasTokenPage(r)
              /\ \A f \in TokenFields :
                    TokenPageOf(r)[f].t = "string"
                    => out[r][i].formData[FormName(f)] = TokenPageOf(r)[f].v
              /\ out[r][i].cookie = OwnCookie(r)
              /\ \A q \in InFlight \ {r} :
                    HasTokenPage(q)
                    => /\ \A f \in TokenFields :
                             TokenPageOf(q)[f].t = "string"
                             => out[r][i].formData[FormName(f)] # TokenPageOf(q)[f].v
                       /\ OwnCookie(q) # "" => out[r][i].cookie # OwnCookie(q)
        /\ HasTokenPage(r)
           => Cardinality({<<q, i>> \in InFlight \X (1..2) :
                              /\ i \in PostsOf(q)
                              /\ out[q][i].formData["__VIEWSTATE"]
                                    = ToJsString(TokenPageOf(r).viewState)}) <= 1

\* Two lookups for the same reference number, their token pages served in the
\* opposite order of their requests, each with its form POST issued.
C13_Witness ==
    /\ req[1] # NoValue /\ req[2] # NoValue
    /\ req[1].refNo = req[2].refNo
    /\ HasTokenPage(1) /\ HasTokenPage(2)
    /\ TokenPageOf(1) = FullTokenPage(2)
    /\ TokenPageOf(2) = FullTokenPage(1)
    /\ pc[1] = "awaitPost" /\ pc[2] = "awaitPost"
    /\ out[1][2].cookie = "ASP.NET_SessionId=s2; path=/; lang=en"
    /\ out[2][2].formData["__VIEWSTATE"] = "/wEP+1="

-----------------------------------------------------------------------------
(* Properties of the course of a lookup, under SpecCourse *)

Started(r) == req[r] # NoValue /\ req[r].method = "getPITCBill"

\* The endpoint of the company a started lookup names, if it names one
EndpointOf(r) ==
    "https://bill.pitc.com.pk/"
        \o (CHOOSE k \in RegisteredCodes : SameLetters(req[r].company.v, k)) \o "bill"

\* The outbound calls of a lookup so far are in the order of the steps.
InStepOrder(r) ==
    /\ Len(out[r]) <= 2
    /\ Len(got[r]) <= Len(out[r])
    /\ Len(out[r]) >= 1
       => /\ req[r].company.t = "string" /\ ~UnregisteredCode(req[r].company)
          /\ out[r][1].method = "GET"
          /\ out[r][1].url = EndpointOf(r)
    /\ Len(out[r]) = 2
       => /\ out[r][2].method = "POST"
          /\ out[r][2].url = EndpointOf(r)
          /\ HasTokenPage(r)
          /\ ~MissingRequired(TokenPageOf(r))
    /\ (Len(got[r]) >= 1 /\ (got[r][1].kind = "fault" \/ MissingRequired(TokenPageOf(r))))
       => (Len(out[r]) = 1 /\ Returned_(r))
    /\ Len(got[r]) = 2 => Returned_(r)
    /\ Returned_(r) <=> res[r] # NoValue
    /\ Returned_(r) => Len(got[r]) = Len(out[r])

\* A lookup that has returned makes no further call and keeps its result.
StaysEnded(r) ==
    Returned_(r) => (Returned_(r)' /\ out'[r] = out[r] /\ got'[r] = got[r] /\ res'[r] = res[r])

\* C14: a getPITCBill call resolves the company, then issues one token GET, then,
\* only after that GET returned a page with the three required tokens, one form
\* POST, both to the endpoint of the resolved company, then interprets the
\* answer; after a fault or a failure at any step it issues no further call;
\* once ended it has one result that never changes; and, each outbound call
\* returning or faulting, every started call ends with a result.
C14_StepOrder ==
    /\ [](\A r \in Reqs : Started(r) => InStepOrder(r))
    /\ [][\A r \in Reqs : Started(r) => StaysEnded(r)]_vars
    /\ \A r \in Reqs : Started(r) ~> (Returned_(r) /\ res[r] # NoValue /\ res[r].kind = "return")

C14_Witness ==
    \E r \in Reqs :
        /\ Started(r)
        /\ Returned_(r)
        /\ Len(out[r]) = 2
        /\ out[r][1] = [method |-> "GET", url |-> "https://bill.pitc.com.pk/sepcobill"]
        /\ out[r][2].url = "https://bill.pitc.com.pk/sepcobill"
        /\ got[r][2].kind = "page"
        /\ res[r].value.success

-----------------------------------------------------------------------------
(* Properties of the results of the lookups, under SpecLookups *)

\* v is a failure: success false, an error string, no bill record
IsFailure(v) ==
    /\ v.success = FALSE
    /\ "error" \in DOMAIN v
    /\ v.error \in STRING
    /\ "data" \notin DOMAIN v

\* v is a success: success true, a bill record, no error
IsSuccess(v) ==
    /\ v.success = TRUE
    /\ "data" \in DOMAIN v
    /\ Groups \subseteq DOMAIN v.data
    /\ "referenceNumber" \in DOMAIN v.data
    /\ "error" \notin DOMAIN v

\* C15: every call of getPITCBill and of getHESCOBill that has ended has
\* returned, on every path, a result that is a failure (success false, an
\* error string, no data) or a success (success true, data, no error), the
\* data of a success holding the three groups even when no row filled them.
C15_SuccessOrFailure ==
    \A r \in Reqs :
        Returned_(r)
        => /\ res[r].kind = "return"
           /\ "success" \in DOMAIN res[r].value
           /\ IF res[r].value.success THEN IsSuccess(res[r].value) ELSE IsFailure(res[r].value)
           /\ res[r].value.success
              <=> (HasFormPage(r) /\ Stripped(FormPageOf(r).ua) = "")

\* getHESCOBill has returned a success whose record has no populated field.
C15_Witness ==
    \E r \in Reqs :
        /\ Returned_(r)
        /\ req[r].method = "getHESCOBill"
        /\ res[r].value.success
        /\ res[r].value.data.consumerDetails = EmptyObject
        /\ res[r].value.data.billDetails = EmptyObject
        /\ res[r].value.data.charges = EmptyObject

-----------------------------------------------------------------------------
(* Properties of the two handlers side by side, under SpecConcurrent *)

\* What the portal did to a lookup, apart from the values of the session
Behaviour(r) ==
    [i \in 1..Len(got[r]) |->
        IF got[r][i].kind = "fault" THEN got[r][i]
        ELSE IF i = 1
        THEN [kind    |-> "tokens",
              strings |-> {f \in TokenFields : got[r][1].response.data[f].t = "string"},
              cookies |-> got[r][1].response.setCookie.t]
        ELSE got[r][i]]

\* The outbound calls of a lookup, apart from the values of the session
CallsOf(r) ==
    [i \in 1..Len(out[r]) |->
        IF out[r][i].method = "GET" THEN out[r][i]
        ELSE [method |-> "POST", url |-> out[r][i].url, referer |-> out[r][i].referer,
              searchTextBox |-> out[r][i].formData["searchTextBox"]]]

SameInputs(r, q) ==
    /\ req[r] # NoValue /\ req[q] # NoValue
    /\ req[r].refNo = req[q].refNo
    /\ req[r].company = req[q].company

\* C16: a GET request and a POST request with the same refNo and company, whose
\* lookups met the same portal behaviour, are at the same point, have issued the
\* same calls and have been sent the same status and body, whether validation
\* failed, the company was unknown, the portal reported an error, a call
\* faulted or the lookup succeeded.
C16_PostAsGet ==
    \A r, q \in InFlight :
        (/\ SameInputs(r, q)
         /\ req[r].method = "GET" /\ req[q].method = "POST"
         /\ Behaviour(r) = Behaviour(q))
        => /\ pc[r] = pc[q]
           /\ CallsOf(r) = CallsOf(q)
           /\ resp[r] = resp[q]

C16_Witness ==
    /\ SameInputs(1, 2)
    /\ req[1].method = "POST" /\ req[2].method = "GET"
    /\ req[1].company = JsUndefined
    /\ Behaviour(1) = Behaviour(2)
    /\ Responded(1) /\ Responded(2)
    /\ resp[1][1].status = 200
    /\ resp[1] = resp[2]

\* C17: a check-bill request without company, by GET or by POST, sends its
\* outbound calls to the hesco endpoint and, where its response names a company,
\* names hesco; and it is at the same point, with the same calls and the same
\* response, as a request with the same refNo and company "hesco" whose lookup
\* met the same portal behaviour.
C17_DefaultsToHesco ==
    \A r \in InFlight :
        (req[r] # NoValue /\ req[r].company = JsUndefined)
        => /\ \A i \in 1..Len(out[r]) : out[r][i].url = "https://bill.pitc.com.pk/hescobill"
           /\ \A i \in 1..Len(resp[r]) :
                 /\ "company" \in DOMAIN resp[r][i].body => resp[r][i].body.company = "hesco"
                 /\ resp[r][i].status = 200
                    => /\ resp[r][i].body.company = "hesco"
                       /\ resp[r][i].body.companyName = "Hyderabad Electric Supply Company"
                       /\ resp[r][i].body.data.company = "hesco"
           /\ \A q \in InFlight :
                 (/\ req[q] # NoValue
                  /\ req[q].company = JsStr("hesco")
                  /\ req[q].refNo = req[r].refNo
                  /\ Behaviour(q) = Behaviour(r))
                 => /\ pc[q] = pc[r]
                    /\ CallsOf(q) = CallsOf(r)
                    /\ resp[q] = resp[r]

C17_Witness ==
    /\ req[1] # NoValue /\ req[2] # NoValue
    /\ req[1].company = JsUndefined
    /\ req[2].company = JsStr("hesco")
    /\ req[1].refNo = req[2].refNo
    /\ Responded(1) /\ Responded(2)
    /\ HasFormPage(1) /\ HasFormPage(2)
    /\ resp[1][1].status = 404
    /\ "company" \in DOMAIN resp[1][1].body
    /\ resp[1][1].body.company = "hesco"
    /\ resp[1][1].body.error = "The given input does not belongs to HESCO"
    /\ resp[2] = resp[1]
    /\ out[1][2].url = "https://bill.pitc.com.pk/hescobill"

-----------------------------------------------------------------------------
(* Properties of the reference number through the facade, under Spec *)

\* C18: the reference number a handler passes to getPITCBill is the string
\* validation returned, the refNo of the request without its surrounding
\* whitespace: every form POST of a request carries it as searchTextBox, 10 to
\* 14 digits and nothing else, in the form fields and in the body sent; every
\* 200 and every 404 response that has a refNo has that string, and a 200 has
\* it in its record too; a request without refNo or with an empty one is
\* answered 400 "Reference number is required" with no outbound call.
C18_TrimmedRefNo ==
    \A r \in Reqs :
        /\ act[r] # NoValue
           => (PassesValidation(req[r].refNo) /\ act[r].refNo = JsStr(Stripped(req[r].refNo.v)))
        /\ \A i \in 1..Len(out[r]) :
              /\ PassesValidation(req[r].refNo)
              /\ out[r][i].method = "POST"
                 => /\ out[r][i].formData["searchTextBox"] = Stripped(req[r].refNo.v)
                    /\ WellFormedRefNo(out[r][i].formData["searchTextBox"])
                    /\ pc[r] = "awaitPost"
                       => Includes("&" \o out[r][i].body \o "&",
                                   "&searchTextBox=" \o Stripped(req[r].refNo.v) \o "&")
        /\ \A i \in 1..Len(resp[r]) :
              /\ (resp[r][i].status \in {200, 404} /\ "refNo" \in DOMAIN resp[r][i].body)
                 => /\ resp[r][i].body.refNo = JsStr(Stripped(req[r].refNo.v))
                    /\ WellFormedRefNo(resp[r][i].body.refNo.v)
              /\ resp[r][i].status = 200
                 => /\ "refNo" \in DOMAIN resp[r][i].body
                    /\ resp[r][i].body.data.referenceNumber = JsStr(Stripped(req[r].refNo.v))
        /\ (req[r] # NoValue /\ req[r].refNo \in {JsUndefined, JsStr("")})
           => /\ resp[r] = <<[status |-> 400,
                              body   |-> [success |-> FALSE,
                                          error   |-> "Reference number is required"]]>>
              /\ out[r] = << >>

C18_Witness ==
    \E r \in Reqs :
        /\ Responded(r)
        /\ req[r].refNo = JsStr(" 06113530462901\n")
        /\ Len(out[r]) = 2
        /\ out[r][2].formData["searchTextBox"] = "06113530462901"
        /\ resp[r][1].status = 200
        /\ resp[r][1].body.refNo = JsStr("06113530462901")

-----------------------------------------------------------------------------
(* Properties of the record over the rows visited, under SpecParse *)

\* The rule each visited row applies, 0 for none
RuleAt == [i \in 1..pidx |-> IF Len(ppage.rows[i]) >= 2 THEN RuleOf(ppage.rows[i]) ELSE 0]

\* The rows that map to the field of rule k, ruleAt giving each row's rule
RowsFor(ruleAt, k) == {i \in DOMAIN ruleAt : ruleAt[i] = k}

\* The fields the rows can set, by group
RuleFields(g) == {Rules[k].field : k \in {j \in 1..Len(Rules) : Rules[j].group = g}}

\* C19: at every point of the scan and in the final record, each field of the
\* label rules holds the trimmed value of the last row, in document order, that
\* maps to it, whatever the rows before it were, and is absent exactly when no
\* row maps to it; the rows set no other field (charges.displayAmount and
\* rawHtml come from the statements after the scan, not from a row).
C19_LastRowWins ==
    pdata # NoValue =>
        /\ LET ruleAt == RuleAt
           IN  \A k \in 1..Len(Rules) :
                  LET rows == RowsFor(ruleAt, k)
                      group == pdata[Rules[k].group]
                      field == Rules[k].field
                  IN  /\ field \in DOMAIN group <=> rows # {}
                      /\ rows # {}
                         => LET last == CHOOSE i \in rows : \A j \in rows : j <= i
                            IN  group[field] = Stripped(ppage.rows[last][2])
        /\ \A g \in Groups :
              DOMAIN pdata[g] \subseteq
                  RuleFields(g) \cup (IF g = "charges" /\ pdata.rawHtml # JsNull
                                      THEN {"displayAmount"} ELSE {})

\* Two rows for consumerDetails.name, the second one's value in the final record
C19_Witness ==
    /\ pdata # NoValue
    /\ pdata.rawHtml # JsNull
    /\ ppage.rows = <<<<"Consumer Name", "Jane Doe">>, <<" NAME &\n Address", " John ">>>>
    /\ pdata.consumerDetails.name = "John"

====
